---- MODULE Spec2Model ----
(***************************************************************************)
(* A model of the Aronnax driver (aronnax/driver.py), the raw-output       *)
(* reader and data-specification interpreter (aronnax/core.py) and the     *)
(* multi-file output loader exercised by test/read_output_test.py.         *)
(***************************************************************************)
EXTENDS Integers, Sequences, FiniteSets, TLC

VARIABLES
    pc,          \* position of the running call
    conf_file,   \* parsed content of <work_dir>/aronnax.conf
    options,     \* the **options mapping given to simulate
    work_dir,    \* the work_dir argument of simulate
    environ,     \* names set in os.environ
    config,      \* the RawConfigParser instance
    err,         \* the exception propagating out of the call, or "none"
    cwd,         \* the process's working directory
    cwd0,        \* the working directory when the call started
    dirstack,    \* directories saved by the active working_directory scopes
    dirs,        \* directories that exist
    kept,        \* files that existed before the call and still do: <<dir, name>>
    before,      \* the directories and files of before the call: [dirs, kept]
    rawfiles,    \* raw Fortran files that existed before the call (readable)
    files,       \* files written by the call: [dir, name, content]
    launched,    \* subprocesses run by check_call: [cmd, env, cwd, code]
    steps_done,  \* the statements of simulate completed so far, in order
    output_files,\* the files given to open_mfdataarray
    mf_grid,     \* the Grid given to open_mfdataarray
    ds,          \* what open_mfdataarray returned
    arr,         \* what interpret_raw_file returned: [err, shape]
    requested,   \* the arguments of interpret_requested_data: [data, shape]
    resolved     \* what interpret_requested_data returned

vars == <<pc, conf_file, options, work_dir, environ, config, err, cwd, cwd0,
          dirstack, dirs, kept, before, rawfiles, files, launched, steps_done,
          output_files, mf_grid, ds, arr, requested, resolved>>

-----------------------------------------------------------------------------
(* Bounds of the exploration *)

\* largest number of keyword options passed to one simulate / merge_config call
MaxOptions == 2

\* largest number of output files handed to one open_mfdataarray call
MaxOutputFiles == 3

-----------------------------------------------------------------------------
(* Python strings *)

StartsWith(s, prefix) ==
    /\ Len(s) >= Len(prefix)
    /\ SubSeq(s, 1, Len(prefix)) = prefix

EndsWith(s, suffix) ==
    /\ Len(s) >= Len(suffix)
    /\ SubSeq(s, Len(s) - Len(suffix) + 1, Len(s)) = suffix

UpperChars == "ABCDEFGHIJKLMNOPQRSTUVWXYZ"
LowerChars == "abcdefghijklmnopqrstuvwxyz"

LowerChar(c) ==
    IF \E i \in 1..Len(UpperChars) : SubSeq(UpperChars, i, i) = c
    THEN LET i == CHOOSE j \in 1..Len(UpperChars) : SubSeq(UpperChars, j, j) = c
         IN  SubSeq(LowerChars, i, i)
    ELSE c

UpperChar(c) ==
    IF \E i \in 1..Len(LowerChars) : SubSeq(LowerChars, i, i) = c
    THEN LET i == CHOOSE j \in 1..Len(LowerChars) : SubSeq(LowerChars, j, j) = c
         IN  SubSeq(UpperChars, i, i)
    ELSE c

RECURSIVE Lower(_)
Lower(s) ==
    IF Len(s) = 0 THEN ""
    ELSE LowerChar(SubSeq(s, 1, 1)) \o Lower(SubSeq(s, 2, Len(s)))

RECURSIVE Upper(_)
Upper(s) ==
    IF Len(s) = 0 THEN ""
    ELSE UpperChar(SubSeq(s, 1, 1)) \o Upper(SubSeq(s, 2, Len(s)))

Digits == "0123456789"

IsDigit(c) == \E i \in 1..Len(Digits) : SubSeq(Digits, i, i) = c

DigitValue(c) == (CHOOSE i \in 1..Len(Digits) : SubSeq(Digits, i, i) = c) - 1

\* int(s) / float(s) on the decimal spellings the model uses: a non-empty run of
\* digits parses, any other text raises ValueError.
IsNumeral(s) ==
    /\ Len(s) > 0
    /\ \A i \in 1..Len(s) : IsDigit(SubSeq(s, i, i))

RECURSIVE NumeralValue(_)
NumeralValue(s) ==
    IF Len(s) = 0 THEN 0
    ELSE 10 * NumeralValue(SubSeq(s, 1, Len(s) - 1)) + DigitValue(SubSeq(s, Len(s), Len(s)))

-----------------------------------------------------------------------------
(* Python values held by the configuration and passed as options.          *)
(* t is the Python type, s the text of a str (or the name of a function),  *)
(* n the number of a bool/int/float, items the entries of a list.          *)

PyStr(s)      == [t |-> "str",   s |-> s,  n |-> 0, items |-> <<>>]
PyBool(b)     == [t |-> "bool",  s |-> "", n |-> IF b THEN 1 ELSE 0, items |-> <<>>]
PyInt(n)      == [t |-> "int",   s |-> "", n |-> n, items |-> <<>>]
PyFloat(n)    == [t |-> "float", s |-> "", n |-> n, items |-> <<>>]
PyFunc(name)  == [t |-> "func",  s |-> name, n |-> 0, items |-> <<>>]
PyList(items) == [t |-> "list",  s |-> "", n |-> 0, items |-> items]

IsText(v)   == v.t = "str"
IsNumber(v) == v.t \in {"bool", "int", "float"}

\* Python's v == True and v == False: bool is a subclass of int, so the numbers
\* 1 and 1.0 equal True and 0 and 0.0 equal False; text, lists and functions equal neither.
PyEqTrue(v)  == IsNumber(v) /\ v.n = 1
PyEqFalse(v) == IsNumber(v) /\ v.n = 0

-----------------------------------------------------------------------------
(* The fixed tables of driver.py *)

sections == <<"executable", "numerics", "model", "pressure_solver", "sponge",
              "physics", "grid", "initial_conditions", "external_forcing">>

section_map_items == <<
    <<"au", "numerics">>, <<"ar", "numerics">>, <<"kh", "numerics">>,
    <<"kv", "numerics">>, <<"botDrag", "numerics">>, <<"dt", "numerics">>,
    <<"slip", "numerics">>, <<"niter0", "numerics">>, <<"nTimeSteps", "numerics">>,
    <<"dumpFreq", "numerics">>, <<"avFreq", "numerics">>,
    <<"checkpointFreq", "numerics">>, <<"diagFreq", "numerics">>,
    <<"hmin", "numerics">>, <<"maxits", "numerics">>, <<"eps", "numerics">>,
    <<"freesurfFac", "numerics">>, <<"thickness_error", "numerics">>,
    <<"debug_level", "numerics">>, <<"hAdvecScheme", "numerics">>,
    <<"hmean", "model">>, <<"depthFile", "model">>, <<"H0", "model">>,
    <<"RedGrav", "model">>,
    <<"nProcX", "pressure_solver">>, <<"nProcY", "pressure_solver">>,
    <<"spongeHTimeScaleFile", "sponge">>, <<"spongeUTimeScaleFile", "sponge">>,
    <<"spongeVTimeScaleFile", "sponge">>, <<"spongeHFile", "sponge">>,
    <<"spongeUFile", "sponge">>, <<"spongeVFile", "sponge">>,
    <<"g_vec", "physics">>, <<"rho0", "physics">>,
    <<"nx", "grid">>, <<"ny", "grid">>, <<"layers", "grid">>,
    <<"dx", "grid">>, <<"dy", "grid">>, <<"fUfile", "grid">>,
    <<"fVfile", "grid">>, <<"wetMaskFile", "grid">>,
    <<"initUfile", "initial_conditions">>, <<"initVfile", "initial_conditions">>,
    <<"initHfile", "initial_conditions">>, <<"initEtaFile", "initial_conditions">>,
    <<"zonalWindFile", "external_forcing">>,
    <<"meridionalWindFile", "external_forcing">>,
    <<"DumpWind", "external_forcing">>,
    <<"wind_mag_time_series_file", "external_forcing">>,
    <<"RelativeWind", "external_forcing">>, <<"Cd", "external_forcing">>,
    <<"exe", "executable">>, <<"valgrind", "executable">>, <<"perf", "executable">> >>

section_map_keys == {section_map_items[i][1] : i \in DOMAIN section_map_items}

section_map ==
    [k \in section_map_keys |->
        section_map_items[CHOOSE i \in DOMAIN section_map_items :
                             section_map_items[i][1] = k][2]]

data_types ==
    [depthFile |-> "2dT",
     spongeHTimeScaleFile |-> "3dT", spongeUTimeScaleFile |-> "3dU",
     spongeVTimeScaleFile |-> "3dV", spongeHFile |-> "3dT",
     spongeUFile |-> "3dU", spongeVFile |-> "3dV",
     fUfile |-> "2dU", fVfile |-> "2dV", wetMaskFile |-> "2dT",
     initUfile |-> "3dU", initVfile |-> "3dV", initHfile |-> "3dT",
     initEtaFile |-> "2dT", zonalWindFile |-> "2dU",
     meridionalWindFile |-> "2dV", wind_mag_time_series_file |-> "time"]

\* variants of is_file_name_option that test one suffix only
is_file_name_option_UppercaseOnly(name) == EndsWith(name, "File")

is_file_name_option_LowercaseOnly(name) == EndsWith(name, "file")

is_file_name_option(name) == EndsWith(name, "File") \/ EndsWith(name, "file")

-----------------------------------------------------------------------------
(* ConfigParser.RawConfigParser: secs is the ordered list of section names, *)
(* opts maps <<section, option>> to the stored value.                       *)

NoConfig == [secs |-> <<>>, opts |-> <<>>]

SeqToSet(q) == {q[i] : i \in DOMAIN q}

has_section(c, section) == section \in SeqToSet(c.secs)

add_section(c, section) == [c EXCEPT !.secs = Append(@, section)]

has_option(c, section, name) ==
    has_section(c, section) /\ <<section, name>> \in DOMAIN c.opts

config_set(c, section, name, v) ==
    [c EXCEPT !.opts = (<<section, name>> :> v) @@ @]

\* config.get raises NoSectionError / NoOptionError when the option is not set
GetError(c, section, name) ==
    IF ~has_section(c, section) THEN "NoSectionError"
    ELSE IF <<section, name>> \notin DOMAIN c.opts THEN "NoOptionError"
    ELSE "none"

config_get(c, section, name) == c.opts[<<section, name>>]

BooleanTrue  == {"1", "yes", "true", "on"}
BooleanFalse == {"0", "no", "false", "off"}

\* config.getboolean: the outcome is "true", "false", or the exception raised
getboolean(c, section, name) ==
    IF GetError(c, section, name) # "none" THEN GetError(c, section, name)
    ELSE LET v == config_get(c, section, name) IN
         IF ~IsText(v) THEN "AttributeError"
         ELSE IF Lower(v.s) \in BooleanTrue THEN "true"
         ELSE IF Lower(v.s) \in BooleanFalse THEN "false"
         ELSE "ValueError"

\* config.getint / config.getfloat: [err, n]
getnumber(c, section, name) ==
    IF GetError(c, section, name) # "none"
    THEN [err |-> GetError(c, section, name), n |-> 0]
    ELSE LET v == config_get(c, section, name) IN
         IF IsNumber(v) THEN [err |-> "none", n |-> v.n]
         ELSE IF IsText(v) /\ IsNumeral(v.s) THEN [err |-> "none", n |-> NumeralValue(v.s)]
         ELSE IF IsText(v) THEN [err |-> "ValueError", n |-> 0]
         ELSE [err |-> "TypeError", n |-> 0]

RECURSIVE AddSections(_, _)
AddSections(c, names) ==
    IF names = <<>> THEN c
    ELSE AddSections(add_section(c, Head(names)), Tail(names))

default_configuration ==
    LET c0 == AddSections(NoConfig, sections)
        c1 == config_set(c0, "executable", "valgrind", PyStr("False"))
    IN  config_set(c1, "executable", "perf", PyStr("False"))

\* config.read(config_file): a parsed file is a sequence of blocks
\* [name, options], options a sequence of <<key, text>>; a missing file is <<>>.
\* Sections the file names are added when absent; every option of the file is
\* stored under the section it is written in, with its name kept verbatim.
RECURSIVE SetOptions(_, _, _)
SetOptions(c, section, opts) ==
    IF opts = <<>> THEN c
    ELSE SetOptions(config_set(c, section, Head(opts)[1], PyStr(Head(opts)[2])),
                    section, Tail(opts))

RECURSIVE config_read(_, _)
config_read(c, blocks) ==
    IF blocks = <<>> THEN c
    ELSE LET b  == Head(blocks)
             c1 == IF has_section(c, b.name) THEN c ELSE add_section(c, b.name)
         IN  config_read(SetOptions(c1, b.name, b.options), Tail(blocks))

-----------------------------------------------------------------------------
(* merge_config *)

\* a variant of merge_config's coercion that stores the value as given
CoerceBoolean_Uncoerced(v) == v

\* the two coercion lines of merge_config
CoerceBoolean(v) ==
    LET v1 == IF PyEqTrue(v) THEN PyStr("yes") ELSE v
    IN  IF PyEqFalse(v1) THEN PyStr("no") ELSE v1

\* merge_config(config, options), visiting the keys of options in the order
\* given: [config, err]. The loop stops at the first key outside section_map,
\* after the keys before it have been stored.
RECURSIVE merge_config(_, _, _)
merge_config(c, opts, order) ==
    IF order = <<>> THEN [config |-> c, err |-> "none"]
    ELSE LET k == Head(order) IN
         IF k \in section_map_keys
         THEN LET section == section_map[k]
                  c1 == IF has_section(c, section) THEN c ELSE add_section(c, section)
              IN  merge_config(config_set(c1, section, k, CoerceBoolean(opts[k])),
                               opts, Tail(order))
         ELSE [config |-> c, err |-> "Unrecognized option"]

\* the orders in which dict.iteritems() may visit the keys of a mapping
Orders(S) ==
    {q \in [1..Cardinality(S) -> S] : \A i, j \in DOMAIN q : i # j => q[i] # q[j]}

-----------------------------------------------------------------------------
(* Paths and the working directory *)

root_path == "/repo"

IsAbsolute(path) == StartsWith(path, "/")

\* os.path.join(a, b)
PathJoin(a, b) == IF IsAbsolute(b) THEN b ELSE a \o "/" \o b

\* the directory os.chdir(target) leads to from directory d
Resolve(d, target) == IF target = "." THEN d ELSE PathJoin(d, target)

\* index of the last "/" of a path, 0 when it has none
RECURSIVE LastSlash(_, _)
LastSlash(path, i) ==
    IF i = 0 THEN 0
    ELSE IF SubSeq(path, i, i) = "/" THEN i
    ELSE LastSlash(path, i - 1)

\* os.path.basename
basename(path) == SubSeq(path, LastSlash(path, Len(path)) + 1, Len(path))

-----------------------------------------------------------------------------
(* core.py: Grid, the generators and interpret_requested_data.              *)
(* An array is described by its shape; a resolution is                      *)
(* [err, shape, src, what]: src "generator" or "file", what the generator   *)
(* name or the path read.                                                   *)

Grid(nx, ny, layers) ==
    [nx |-> nx, ny |-> ny, layers |-> layers,
     xp1 |-> nx + 1, yp1 |-> ny + 1,      \* lengths of the corner axes
     x |-> (nx + 1) - 1, y |-> (ny + 1) - 1]  \* xp1[1:] + xp1[:-1]

Failed(e) == [err |-> e, shape |-> <<>>, src |-> "", what |-> ""]

Generated(name, shape) ==
    [err |-> "none", shape |-> shape, src |-> "generator", what |-> name]

ok_generators ==
    {"tracer_point_variable_2d", "tracer_point_variable_3d",
     "u_point_variable_2d", "u_point_variable_3d",
     "v_point_variable_2d", "v_point_variable_3d",
     "beta_plane_f_u", "beta_plane_f_v", "f_plane_f_u", "f_plane_f_v",
     "rectangular_pool"}

\* The generators as called with a list of Python values (numbers or functions).
\* tracer_point_variable_2d reads the name f, which is bound nowhere.
tracer_point_variable_2d(grid, h_funcs) == Failed("NameError")

tracer_point_variable_3d(grid, h_funcs) ==
    IF grid.layers # Len(h_funcs) THEN Failed("AssertionError")
    ELSE IF \E i \in DOMAIN h_funcs : h_funcs[i].t \notin {"bool", "int", "float", "func"}
    THEN Failed("TypeError")
    ELSE Generated("tracer_point_variable_3d", <<grid.layers, grid.ny, grid.nx>>)

\* np.ones(grid.ny, grid.nx+1) passes nx+1 as the dtype
u_point_variable_2d(grid, func) ==
    IF IsNumber(func) THEN Failed("TypeError")
    ELSE IF func.t = "func" THEN Generated("u_point_variable_2d", <<grid.y, grid.xp1>>)
    ELSE Failed("TypeError")

\* the loop tests isinstance(func, ...) on the list, so every entry is called
u_point_variable_3d(grid, func) ==
    IF func.t # "list" THEN Failed("TypeError")
    ELSE IF grid.layers # Len(func.items) THEN Failed("AssertionError")
    ELSE IF \E i \in DOMAIN func.items : func.items[i].t # "func" THEN Failed("TypeError")
    ELSE Generated("u_point_variable_3d", <<grid.layers, grid.ny, grid.nx + 1>>)

\* meshgrid(grid.y, grid.xp1): the function is evaluated on (nx+1, ny) arrays
v_point_variable_2d(grid, func) ==
    IF IsNumber(func) THEN Failed("TypeError")
    ELSE IF func.t = "func" THEN Generated("v_point_variable_2d", <<grid.xp1, grid.y>>)
    ELSE Failed("TypeError")

v_point_variable_3d(grid, func) ==
    IF func.t # "list" THEN Failed("TypeError")
    ELSE IF grid.layers # Len(func.items) THEN Failed("AssertionError")
    ELSE IF \E i \in DOMAIN func.items : func.items[i].t # "func" THEN Failed("TypeError")
    ELSE Generated("v_point_variable_3d", <<grid.layers, grid.ny + 1, grid.nx>>)

f_plane_f_u(grid) == Generated("f_plane_f_u", <<grid.nx + 1, grid.ny>>)
f_plane_f_v(grid) == Generated("f_plane_f_v", <<grid.nx, grid.ny + 1>>)
beta_plane_f_u(grid) == Generated("beta_plane_f_u", <<grid.y, grid.xp1>>)
beta_plane_f_v(grid) == Generated("beta_plane_f_v", <<grid.yp1, grid.x>>)

rectangular_pool(grid) ==
    IF grid.nx = 0 \/ grid.ny = 0 THEN Failed("IndexError")
    ELSE Generated("rectangular_pool", <<grid.nx, grid.ny>>)

\* func(grid, *args) for a registered generator and a list of floats
CallGenerator(name, grid, args) ==
    LET n == Len(args) IN
    CASE name = "tracer_point_variable_2d" -> tracer_point_variable_2d(grid, args)
      [] name = "tracer_point_variable_3d" -> tracer_point_variable_3d(grid, args)
      [] name = "u_point_variable_2d" ->
            IF n # 1 THEN Failed("TypeError") ELSE u_point_variable_2d(grid, args[1])
      [] name = "u_point_variable_3d" ->
            IF n # 1 THEN Failed("TypeError") ELSE u_point_variable_3d(grid, args[1])
      [] name = "v_point_variable_2d" ->
            IF n # 1 THEN Failed("TypeError") ELSE v_point_variable_2d(grid, args[1])
      [] name = "v_point_variable_3d" ->
            IF n # 1 THEN Failed("TypeError") ELSE v_point_variable_3d(grid, args[1])
      [] name = "beta_plane_f_u" ->
            IF n # 2 THEN Failed("TypeError") ELSE beta_plane_f_u(grid)
      [] name = "beta_plane_f_v" ->
            IF n # 2 THEN Failed("TypeError") ELSE beta_plane_f_v(grid)
      [] name = "f_plane_f_u" ->
            IF n # 1 THEN Failed("TypeError") ELSE f_plane_f_u(grid)
      [] name = "f_plane_f_v" ->
            IF n # 1 THEN Failed("TypeError") ELSE f_plane_f_v(grid)
      [] name = "rectangular_pool" ->
            IF n # 0 THEN Failed("TypeError") ELSE rectangular_pool(grid)

\* specifier_rx = ':(.*):(.*)' matched at the start of the text: the text starts
\* with a colon and holds a later one; the first group runs to the last colon.
SpecifierMatches(string) ==
    StartsWith(string, ":") /\
    \E i \in 2..Len(string) : SubSeq(string, i, i) = ":"

LastColon(string) ==
    CHOOSE i \in 2..Len(string) :
        /\ SubSeq(string, i, i) = ":"
        /\ \A j \in (i + 1)..Len(string) : SubSeq(string, j, j) # ":"

\* arg_str.split(',')
RECURSIVE SplitCommas(_)
SplitCommas(s) ==
    IF \E i \in 1..Len(s) : SubSeq(s, i, i) = ","
    THEN LET i == CHOOSE j \in 1..Len(s) :
                    /\ SubSeq(s, j, j) = ","
                    /\ \A k \in 1..(j - 1) : SubSeq(s, k, k) # ","
         IN  <<SubSeq(s, 1, i - 1)>> \o SplitCommas(SubSeq(s, i + 1, Len(s)))
    ELSE <<s>>

\* a variant of interpret_data_specifier whose name group stops at the first
\* colon that follows it
interpret_data_specifier_ShortestName(string) ==
    IF ~SpecifierMatches(string)
    THEN [matched |-> FALSE, err |-> "none", name |-> "", args |-> <<>>]
    ELSE LET first   == CHOOSE i \in 2..Len(string) :
                            /\ SubSeq(string, i, i) = ":"
                            /\ \A j \in 2..(i - 1) : SubSeq(string, j, j) # ":"
             name    == SubSeq(string, 2, first - 1)
             arg_str == SubSeq(string, first + 1, Len(string))
             parts   == IF Len(arg_str) > 0 THEN SplitCommas(arg_str) ELSE <<>>
         IN  IF \E i \in DOMAIN parts : ~IsNumeral(parts[i])
             THEN [matched |-> TRUE, err |-> "ValueError", name |-> name, args |-> <<>>]
             ELSE IF name \notin ok_generators
             THEN [matched |-> TRUE, err |-> "KeyError", name |-> name, args |-> <<>>]
             ELSE [matched |-> TRUE, err |-> "none", name |-> name,
                   args |-> [i \in DOMAIN parts |-> PyFloat(NumeralValue(parts[i]))]]

\* interpret_data_specifier: [matched, err, name, args]
interpret_data_specifier(string) ==
    IF ~SpecifierMatches(string)
    THEN [matched |-> FALSE, err |-> "none", name |-> "", args |-> <<>>]
    ELSE LET last    == LastColon(string)
             name    == SubSeq(string, 2, last - 1)
             arg_str == SubSeq(string, last + 1, Len(string))
             parts   == IF Len(arg_str) > 0 THEN SplitCommas(arg_str) ELSE <<>>
         IN  IF \E i \in DOMAIN parts : ~IsNumeral(parts[i])
             THEN [matched |-> TRUE, err |-> "ValueError", name |-> name, args |-> <<>>]
             ELSE IF name \notin ok_generators
             THEN [matched |-> TRUE, err |-> "KeyError", name |-> name, args |-> <<>>]
             ELSE [matched |-> TRUE, err |-> "none", name |-> name,
                   args |-> [i \in DOMAIN parts |-> PyFloat(NumeralValue(parts[i]))]]

\* the raw files readable from directory d: rf is a set of [dir, name, len]
RawFileAt(rf, d, path) == {f \in rf : f.dir = d /\ f.name = path}

\* interpret_requested_data(requested_data, shape, config), run in directory d
interpret_requested_data(requested_data, shape, c, rf, d) ==
    LET nx == getnumber(c, "grid", "nx")
        ny == getnumber(c, "grid", "ny")
        layers == getnumber(c, "grid", "layers")
        dx == getnumber(c, "grid", "dx")
        dy == getnumber(c, "grid", "dy")
    IN
    IF nx.err # "none" THEN Failed(nx.err)
    ELSE IF ny.err # "none" THEN Failed(ny.err)
    ELSE IF layers.err # "none" THEN Failed(layers.err)
    ELSE IF dx.err # "none" THEN Failed(dx.err)
    ELSE IF dy.err # "none" THEN Failed(dy.err)
    ELSE
    LET grid == Grid(nx.n, ny.n, layers.n) IN
    IF IsText(requested_data)
    THEN LET candidate == interpret_data_specifier(requested_data.s) IN
         IF candidate.matched
         THEN IF candidate.err # "none" THEN Failed(candidate.err)
              ELSE CallGenerator(candidate.name, grid, candidate.args)
         ELSE IF RawFileAt(rf, d, requested_data.s) = {} THEN Failed("IOError")
              ELSE LET f == CHOOSE g \in RawFileAt(rf, d, requested_data.s) : TRUE
                   IN  [err |-> "none", shape |-> <<f.len>>, src |-> "file",
                        what |-> requested_data.s]
    ELSE
    CASE shape = "2dT" ->
            IF requested_data.t # "list" THEN Failed("TypeError")
            ELSE tracer_point_variable_2d(grid, requested_data.items)
      [] shape = "3dT" ->
            IF requested_data.t # "list" THEN Failed("TypeError")
            ELSE tracer_point_variable_3d(grid, requested_data.items)
      [] shape = "2dU" -> u_point_variable_2d(grid, requested_data)
      [] shape = "3dU" -> u_point_variable_3d(grid, requested_data)
      [] shape = "2dV" -> v_point_variable_2d(grid, requested_data)
      [] shape = "3dV" -> v_point_variable_3d(grid, requested_data)
      [] OTHER -> Failed("Exception: TODO implement custom generation")

-----------------------------------------------------------------------------
(* generate_input_data_files *)

\* the keys for which the loop of generate_input_data_files does not `continue`
InputFileKeys(c) ==
    {name \in section_map_keys :
        is_file_name_option(name) /\ has_option(c, section_map[name], name)}

\* The loop over the keys in the order given (the keys that are skipped have
\* no effect, so only the others are listed): [written, err], written the
\* records <<name.bin, resolution>> in the order they were written.
RECURSIVE WriteInputFiles(_, _, _, _, _)
WriteInputFiles(c, order, rf, d, written) ==
    IF order = <<>> THEN [written |-> written, err |-> "none"]
    ELSE LET name == Head(order)
             requested_data == config_get(c, section_map[name], name)
             generated_data ==
                 interpret_requested_data(requested_data, data_types[name], c, rf, d)
         IN  IF generated_data.err # "none"
             THEN [written |-> written, err |-> generated_data.err]
             ELSE WriteInputFiles(c, Tail(order), rf, d,
                      Append(written, <<name \o ".bin", generated_data>>))

generate_input_data_files(c, order, rf, d) == WriteInputFiles(c, order, rf, d, <<>>)

-----------------------------------------------------------------------------
(* fortran_option_string and generate_parameters_file *)

RECURSIVE Decimal(_)
Decimal(n) ==
    IF n < 10 THEN SubSeq(Digits, n + 1, n + 1)
    ELSE Decimal(n \div 10) \o SubSeq(Digits, (n % 10) + 1, (n % 10) + 1)

\* '%s' % value
TextOf(v) ==
    CASE v.t = "str"   -> v.s
      [] v.t = "int"   -> Decimal(v.n)
      [] v.t = "float" -> Decimal(v.n) \o ".0"
      [] v.t = "bool"  -> IF v.n = 1 THEN "True" ELSE "False"
      [] v.t = "func"  -> "<function " \o v.s \o ">"
      [] OTHER         -> "[...]"

\* fortran_option_string: [err, none, val]; none is TRUE when it returns None
NoLine == [err |-> "none", none |-> TRUE, val |-> ""]
Line(val) == [err |-> "none", none |-> FALSE, val |-> val]

\* a variant of fortran_option_string that takes a file option for set when any
\* section holds it
fortran_option_string_AnySection(section, name, c) ==
    IF is_file_name_option(name)
    THEN IF \E o \in DOMAIN c.opts : o[2] = name
         THEN Line("'" \o PathJoin("input", name \o ".bin") \o "'")
         ELSE Line("''")
    ELSE IF name \in {"RedGrav", "DumpWind", "RelativeWind"}
    THEN LET b == getboolean(c, section, name) IN
         IF b = "true" THEN Line(".TRUE.")
         ELSE IF b = "false" THEN Line(".FALSE.")
         ELSE [err |-> b, none |-> FALSE, val |-> ""]
    ELSE IF has_option(c, section, name)
         THEN Line(TextOf(config_get(c, section, name)))
         ELSE NoLine

\* a variant of fortran_option_string that omits the line of a flag that is
\* not set
fortran_option_string_OmitsUnsetFlag(section, name, c) ==
    IF is_file_name_option(name)
    THEN IF has_option(c, section, name)
         THEN Line("'" \o PathJoin("input", name \o ".bin") \o "'")
         ELSE Line("''")
    ELSE IF name \in {"RedGrav", "DumpWind", "RelativeWind"} /\ has_option(c, section, name)
    THEN LET b == getboolean(c, section, name) IN
         IF b = "true" THEN Line(".TRUE.")
         ELSE IF b = "false" THEN Line(".FALSE.")
         ELSE [err |-> b, none |-> FALSE, val |-> ""]
    ELSE IF has_option(c, section, name)
         THEN Line(TextOf(config_get(c, section, name)))
         ELSE NoLine

fortran_option_string(section, name, c) ==
    IF is_file_name_option(name)
    THEN IF has_option(c, section, name)
         THEN Line("'" \o PathJoin("input", name \o ".bin") \o "'")
         ELSE Line("''")
    ELSE IF name \in {"RedGrav", "DumpWind", "RelativeWind"}
    THEN LET b == getboolean(c, section, name) IN
         IF b = "true" THEN Line(".TRUE.")
         ELSE IF b = "false" THEN Line(".FALSE.")
         ELSE [err |-> b, none |-> FALSE, val |-> ""]
    ELSE IF has_option(c, section, name)
         THEN Line(TextOf(config_get(c, section, name)))
         ELSE NoLine

\* the keys of section_map whose home section is the one given
KeysOf(section) == {name \in section_map_keys : section_map[name] = section}

\* ' %s = %s,\n' % (name, val)
ParamLine(name, val) == " " \o name \o " = " \o val \o ","

\* One block of parameters.in: [name, header, lines, closed]. The lines are a
\* set: the order in which section_map.iteritems() visits the keys is the
\* dictionary's own.
OkLines(section, c) ==
    {ParamLine(name, fortran_option_string(section, name, c).val) :
        name \in {k \in KeysOf(section) :
                    LET r == fortran_option_string(section, k, c)
                    IN  r.err = "none" /\ ~r.none}}

FailingKeys(section, c) ==
    {k \in KeysOf(section) : fortran_option_string(section, k, c).err # "none"}

Block(section, lines, closed) ==
    [name |-> section, header |-> " &" \o Upper(section),
     lines |-> lines, closed |-> closed]

\* The outcomes of generate_parameters_file over the sections in the order of
\* config.sections(): the set of [err, blocks]. A section outside `sections`
\* raises before its header is written; a key whose rendering raises leaves
\* the block open, holding the lines of the keys visited before it.
RECURSIVE ParameterBlocks(_, _, _)
ParameterBlocks(c, secs, blocks) ==
    IF secs = <<>> THEN {[err |-> "none", blocks |-> blocks]}
    ELSE LET section == Head(secs) IN
         IF section \notin SeqToSet(sections)
         THEN {[err |-> "Detected unexpected section name", blocks |-> blocks]}
         ELSE IF FailingKeys(section, c) # {}
         THEN {[err |-> fortran_option_string(section, k, c).err,
                blocks |-> Append(blocks, Block(section, lines, FALSE))] :
                    k \in FailingKeys(section, c),
                    lines \in SUBSET OkLines(section, c)}
         ELSE ParameterBlocks(c, Tail(secs),
                  Append(blocks, Block(section, OkLines(section, c), TRUE)))

IsKnownSection(section) == section \in SeqToSet(sections)

\* a variant of generate_parameters_file that passes over the sections it does
\* not know
generate_parameters_file_KnownOnly(c) ==
    ParameterBlocks(c, SelectSeq(c.secs, IsKnownSection), <<>>)

generate_parameters_file(c) == ParameterBlocks(c, c.secs, <<>>)

-----------------------------------------------------------------------------
(* run_executable *)

ValgrindCommand(core_name) ==
    <<"mpirun", "-np", "1", "valgrind", "--error-exitcode=5",
      PathJoin(root_path, core_name)>>

PerfCommand(core_name) ==
    <<"perf", "stat", "-e", "r530010",
      "-e", "L1-dcache-loads", "-e", "L1-dcache-load-misses",
      "-e", "L1-dcache-stores", "-e", "L1-dcache-store-misses",
      "-e", "L1-icache-loads", "-e", "L1-icache-misses",
      "-e", "L1-dcache-prefetches",
      "-e", "branch-instructions", "-e", "branch-misses",
      PathJoin(root_path, core_name)>>

NormalCommand(core_name) == <<"mpirun", "-np", "1", PathJoin(root_path, core_name)>>

\* env = dict(os.environ, GFORTRAN_STDERR_UNIT="17")
SubprocessEnv(env) == [k \in env \cup {"GFORTRAN_STDERR_UNIT"} |->
                          IF k = "GFORTRAN_STDERR_UNIT" THEN "17" ELSE "set"]

\* a variant of run_executable without the assertion on perf
run_executable_Unasserted(c, env) ==
    IF GetError(c, "executable", "exe") # "none"
    THEN [err |-> GetError(c, "executable", "exe"), cmd |-> <<>>]
    ELSE
    LET core_name == TextOf(config_get(c, "executable", "exe"))
        valgrind  == getboolean(c, "executable", "valgrind")
        perf      == getboolean(c, "executable", "perf")
    IN
    IF valgrind \notin {"true", "false"} THEN [err |-> valgrind, cmd |-> <<>>]
    ELSE IF valgrind = "true" \/ "ARONNAX_TEST_VALGRIND_ALL" \in env
    THEN [err |-> "none", cmd |-> ValgrindCommand(core_name)]
    ELSE IF perf \notin {"true", "false"} THEN [err |-> perf, cmd |-> <<>>]
    ELSE IF perf = "true" THEN [err |-> "none", cmd |-> PerfCommand(core_name)]
    ELSE [err |-> "none", cmd |-> NormalCommand(core_name)]

\* a variant of run_executable that does not look at os.environ
run_executable_NoOverride(c, env) ==
    IF GetError(c, "executable", "exe") # "none"
    THEN [err |-> GetError(c, "executable", "exe"), cmd |-> <<>>]
    ELSE
    LET core_name == TextOf(config_get(c, "executable", "exe"))
        valgrind  == getboolean(c, "executable", "valgrind")
        perf      == getboolean(c, "executable", "perf")
    IN
    IF valgrind \notin {"true", "false"} THEN [err |-> valgrind, cmd |-> <<>>]
    ELSE IF valgrind = "true"
    THEN IF perf \notin {"true", "false"} THEN [err |-> perf, cmd |-> <<>>]
         ELSE IF perf = "true" THEN [err |-> "AssertionError", cmd |-> <<>>]
         ELSE [err |-> "none", cmd |-> ValgrindCommand(core_name)]
    ELSE IF perf \notin {"true", "false"} THEN [err |-> perf, cmd |-> <<>>]
    ELSE IF perf = "true" THEN [err |-> "none", cmd |-> PerfCommand(core_name)]
    ELSE [err |-> "none", cmd |-> NormalCommand(core_name)]

\* What run_executable does before check_call returns: [err, cmd], cmd <<>>
\* when an exception is raised before any subprocess is started.
run_executable(c, env) ==
    IF GetError(c, "executable", "exe") # "none"
    THEN [err |-> GetError(c, "executable", "exe"), cmd |-> <<>>]
    ELSE
    LET core_name == TextOf(config_get(c, "executable", "exe"))
        valgrind  == getboolean(c, "executable", "valgrind")
        perf      == getboolean(c, "executable", "perf")
    IN
    IF valgrind \notin {"true", "false"} THEN [err |-> valgrind, cmd |-> <<>>]
    ELSE IF valgrind = "true" \/ "ARONNAX_TEST_VALGRIND_ALL" \in env
    THEN IF perf \notin {"true", "false"} THEN [err |-> perf, cmd |-> <<>>]
         ELSE IF perf = "true" THEN [err |-> "AssertionError", cmd |-> <<>>]
         ELSE [err |-> "none", cmd |-> ValgrindCommand(core_name)]
    ELSE IF perf \notin {"true", "false"} THEN [err |-> perf, cmd |-> <<>>]
    ELSE IF perf = "true" THEN [err |-> "none", cmd |-> PerfCommand(core_name)]
    ELSE [err |-> "none", cmd |-> NormalCommand(core_name)]

-----------------------------------------------------------------------------
(* working_directory (aronnax/utils.py): entering saves the directory that  *)
(* was active and changes to the target; leaving restores the saved one,    *)
(* on normal and on error exit alike.                                       *)

working_directory_enter(stack, d, target) ==
    [stack |-> Append(stack, d), cwd |-> Resolve(d, target)]

working_directory_exit(stack) ==
    [stack |-> SubSeq(stack, 1, Len(stack) - 1), cwd |-> stack[Len(stack)]]

-----------------------------------------------------------------------------
(* simulate: the statements of its body in program order *)

\* a variant of simulate that runs the executable before writing parameters.in
simulate_steps_RunBeforeParameters ==
    <<"load_config", "merge_config", "enter_work_dir",
      "compile_core", "make", "leave_root_path",
      "write_merged_conf", "mkdir_output", "mkdir_checkpoints",
      "enter_input", "generate_input_data_files", "leave_input",
      "run_executable", "generate_parameters_file",
      "rm_netcdf_output", "mkdir_netcdf_output", "convert_output_to_netcdf",
      "leave_work_dir", "returned">>

\* a variant of simulate that clears netcdf-output/ before the run
simulate_steps_CleanBeforeRun ==
    <<"load_config", "merge_config", "enter_work_dir",
      "compile_core", "make", "leave_root_path",
      "write_merged_conf", "mkdir_output", "mkdir_checkpoints",
      "enter_input", "generate_input_data_files", "leave_input",
      "generate_parameters_file",
      "rm_netcdf_output", "mkdir_netcdf_output", "run_executable",
      "convert_output_to_netcdf",
      "leave_work_dir", "returned">>

\* a variant of simulate that writes parameters.in inside the input/ scope
simulate_steps_ParametersInsideInput ==
    <<"load_config", "merge_config", "enter_work_dir",
      "compile_core", "make", "leave_root_path",
      "write_merged_conf", "mkdir_output", "mkdir_checkpoints",
      "enter_input", "generate_input_data_files", "generate_parameters_file",
      "leave_input", "run_executable",
      "rm_netcdf_output", "mkdir_netcdf_output", "convert_output_to_netcdf",
      "leave_work_dir", "returned">>

simulate_steps ==
    <<"load_config", "merge_config", "enter_work_dir",
      "compile_core", "make", "leave_root_path",
      "write_merged_conf", "mkdir_output", "mkdir_checkpoints",
      "enter_input", "generate_input_data_files", "leave_input",
      "generate_parameters_file", "run_executable",
      "rm_netcdf_output", "mkdir_netcdf_output", "convert_output_to_netcdf",
      "leave_work_dir", "returned">>

\* the statement that follows `step`
After(step) ==
    simulate_steps[(CHOOSE i \in DOMAIN simulate_steps : simulate_steps[i] = step) + 1]

inputs == <<conf_file, options, work_dir, environ, cwd0, rawfiles, before>>
loader == <<output_files, mf_grid, ds, arr, requested, resolved>>

\* an exception leaves the statement: the enclosing scopes are left in turn
Raise(e) == err' = e /\ pc' = "unwind" /\ UNCHANGED steps_done

\* the statement at pc completes and control reaches `step`
Goto(step) == pc' = step /\ err' = err /\ steps_done' = Append(steps_done, pc)

\* sub.check_call(cmd) run in the current directory with the environment env,
\* the subprocess exiting with status code
Launch(cmd, env, code) ==
    launched' = Append(launched, [cmd |-> cmd, env |-> env, cwd |-> cwd, code |-> code])

InheritedEnv == [k \in environ |-> "set"]

WriteFile(name, content) == files' = (<<cwd, name>> :> content) @@ files

\* config = default_configuration(); config.read(config_file)
LoadConfig ==
    /\ pc = "load_config"
    /\ config' = config_read(default_configuration, conf_file)
    /\ Goto(After("load_config"))
    /\ UNCHANGED <<inputs, loader, cwd, dirstack, dirs, kept, files, launched>>

\* merge_config(config, options); an exception here propagates with no scope entered
MergeConfig ==
    /\ pc = "merge_config"
    /\ \E order \in Orders(DOMAIN options) :
         LET r == merge_config(config, options, order) IN
         /\ config' = r.config
         /\ IF r.err = "none" THEN Goto(After("merge_config")) ELSE Raise(r.err)
    /\ UNCHANGED <<inputs, loader, cwd, dirstack, dirs, kept, files, launched>>

\* with working_directory(work_dir):
EnterWorkDir ==
    /\ pc = "enter_work_dir"
    /\ IF Resolve(cwd, work_dir) \in dirs
       THEN LET w == working_directory_enter(dirstack, cwd, work_dir) IN
            /\ dirstack' = w.stack
            /\ cwd' = w.cwd
            /\ Goto(After("enter_work_dir"))
       ELSE /\ Raise("OSError")
            /\ UNCHANGED <<dirstack, cwd>>
    /\ UNCHANGED <<inputs, loader, config, dirs, kept, files, launched>>

\* compile_core: core_name = config.get(...); with working_directory(root_path):
CompileCore ==
    /\ pc = "compile_core"
    /\ IF GetError(config, "executable", "exe") # "none"
       THEN /\ Raise(GetError(config, "executable", "exe"))
            /\ UNCHANGED <<dirstack, cwd>>
       ELSE LET w == working_directory_enter(dirstack, cwd, root_path) IN
            /\ dirstack' = w.stack
            /\ cwd' = w.cwd
            /\ Goto(After("compile_core"))
    /\ UNCHANGED <<inputs, loader, config, dirs, kept, files, launched>>

\* sub.check_call(["make", core_name])
Make ==
    /\ pc = "make"
    /\ \E code \in {0, 2} :
         /\ Launch(<<"make", TextOf(config_get(config, "executable", "exe"))>>,
                   InheritedEnv, code)
         /\ IF code = 0 THEN Goto(After("make")) ELSE Raise("CalledProcessError")
    /\ UNCHANGED <<inputs, loader, config, cwd, dirstack, dirs, kept, files>>

\* the end of a with block reached normally
LeaveScope(step) ==
    /\ pc = step
    /\ LET w == working_directory_exit(dirstack) IN
       /\ dirstack' = w.stack
       /\ cwd' = w.cwd
    /\ Goto(After(step))
    /\ UNCHANGED <<inputs, loader, config, dirs, kept, files, launched>>

LeaveRootPath == LeaveScope("leave_root_path")

\* with open('aronnax-merged.conf', 'w') as f: config.write(f)
WriteMergedConf ==
    /\ pc = "write_merged_conf"
    /\ \E ok \in BOOLEAN :
         IF ok THEN /\ WriteFile("aronnax-merged.conf", config)
                    /\ Goto(After("write_merged_conf"))
         ELSE /\ Raise("IOError")
              /\ UNCHANGED files
    /\ UNCHANGED <<inputs, loader, config, cwd, dirstack, dirs, kept, launched>>

\* sub.check_call(["mkdir", "-p", d])
Mkdir(step, d) ==
    /\ pc = step
    /\ \E code \in {0, 1} :
         /\ Launch(<<"mkdir", "-p", d>>, InheritedEnv, code)
         /\ IF code = 0
            THEN /\ dirs' = dirs \cup {PathJoin(cwd, SubSeq(d, 1, Len(d) - 1))}
                 /\ Goto(After(step))
            ELSE /\ Raise("CalledProcessError")
                 /\ UNCHANGED dirs
    /\ UNCHANGED <<inputs, loader, config, cwd, dirstack, kept, files>>

MkdirOutput == Mkdir("mkdir_output", "output/")

MkdirCheckpoints == Mkdir("mkdir_checkpoints", "checkpoints/")

\* with working_directory("input"):
EnterInput ==
    /\ pc = "enter_input"
    /\ IF Resolve(cwd, "input") \in dirs
       THEN LET w == working_directory_enter(dirstack, cwd, "input") IN
            /\ dirstack' = w.stack
            /\ cwd' = w.cwd
            /\ Goto(After("enter_input"))
       ELSE /\ Raise("OSError")
            /\ UNCHANGED <<dirstack, cwd>>
    /\ UNCHANGED <<inputs, loader, config, dirs, kept, files, launched>>

\* the files of `written` put into directory d
RECURSIVE PutFiles(_, _, _)
PutFiles(fs, d, written) ==
    IF written = <<>> THEN fs
    ELSE PutFiles((<<d, Head(written)[1]>> :> [records |-> <<Head(written)[2]>>]) @@ fs,
                  d, Tail(written))

GenerateInputDataFiles ==
    /\ pc = "generate_input_data_files"
    /\ \E order \in Orders(InputFileKeys(config)) :
         LET r == generate_input_data_files(config, order, rawfiles, cwd) IN
         /\ files' = PutFiles(files, cwd, r.written)
         /\ IF r.err = "none"
            THEN Goto(After("generate_input_data_files"))
            ELSE Raise(r.err)
    /\ UNCHANGED <<inputs, loader, config, cwd, dirstack, dirs, kept, launched>>

LeaveInput == LeaveScope("leave_input")

\* open('parameters.in', 'w') truncates the file before anything is rendered
GenerateParametersFile ==
    /\ pc = "generate_parameters_file"
    /\ \E r \in generate_parameters_file(config) :
         /\ WriteFile("parameters.in", r.blocks)
         /\ IF r.err = "none"
            THEN Goto(After("generate_parameters_file"))
            ELSE Raise(r.err)
    /\ UNCHANGED <<inputs, loader, config, cwd, dirstack, dirs, kept, launched>>

\* the exit statuses of the core executable the model distinguishes
ExitCodes == {0, 1, 5}

RunExecutable ==
    /\ pc = "run_executable"
    /\ LET r == run_executable(config, environ) IN
       IF r.err # "none"
       THEN /\ Raise(r.err)
            /\ UNCHANGED launched
       ELSE \E code \in ExitCodes :
              /\ Launch(r.cmd, SubprocessEnv(environ), code)
              /\ IF code = 0 THEN Goto(After("run_executable"))
                 ELSE Raise("CalledProcessError")
    /\ UNCHANGED <<inputs, loader, config, cwd, dirstack, dirs, kept, files>>

\* sub.check_call(["rm", "-rf", "netcdf-output/"]): the directory goes with all
\* it holds; an rm that fails may have removed part of the contents
RmNetcdfOutput ==
    /\ pc = "rm_netcdf_output"
    /\ LET target == PathJoin(cwd, "netcdf-output")
           inside == {f \in kept : f[1] = target}
       IN  \E code \in {0, 1} :
             /\ Launch(<<"rm", "-rf", "netcdf-output/">>, InheritedEnv, code)
             /\ IF code = 0
                THEN /\ dirs' = dirs \ {target}
                     /\ kept' = kept \ inside
                     /\ Goto(After("rm_netcdf_output"))
                ELSE /\ Raise("CalledProcessError")
                     /\ \E gone \in SUBSET inside : kept' = kept \ gone
                     /\ UNCHANGED dirs
    /\ UNCHANGED <<inputs, loader, config, cwd, dirstack, files>>

MkdirNetcdfOutput == Mkdir("mkdir_netcdf_output", "netcdf-output/")

\* convert_output_to_netcdf(config): pass
ConvertOutputToNetcdf ==
    /\ pc = "convert_output_to_netcdf"
    /\ Goto(After("convert_output_to_netcdf"))
    /\ UNCHANGED <<inputs, loader, config, cwd, dirstack, dirs, kept, files, launched>>

\* return core_run_time leaves the with block of work_dir
LeaveWorkDir == LeaveScope("leave_work_dir")

\* an exception propagating: each enclosing working_directory scope restores
\* the directory it saved; with none left, simulate has raised
Unwind ==
    /\ pc = "unwind"
    /\ IF dirstack # <<>>
       THEN LET w == working_directory_exit(dirstack) IN
            /\ dirstack' = w.stack
            /\ cwd' = w.cwd
            /\ pc' = "unwind"
       ELSE /\ pc' = "raised"
            /\ UNCHANGED <<dirstack, cwd>>
    /\ UNCHANGED <<inputs, loader, config, err, dirs, kept, files, launched, steps_done>>

-----------------------------------------------------------------------------
(* interpret_raw_file's naming convention and the multi-file loader *)

\* a variant of the prefix tests in which snap.v offsets the x axis
raw_file_convention_VOffsetsX(name) ==
    LET file_part == basename(name) IN
    [dx |-> IF \/ StartsWith(file_part, "snap.u")
               \/ StartsWith(file_part, "snap.v")
               \/ StartsWith(file_part, "wind_x")
               \/ StartsWith(file_part, "av.u") THEN 1 ELSE 0,
     dy |-> IF \/ StartsWith(file_part, "wind_y")
               \/ StartsWith(file_part, "av.v") THEN 1 ELSE 0,
     layered |-> ~ \/ StartsWith(file_part, "snap.eta")
                   \/ StartsWith(file_part, "wind_x")
                   \/ StartsWith(file_part, "wind_y")
                   \/ StartsWith(file_part, "av.eta")]

\* a variant of the prefix tests applied to the whole path
raw_file_convention_WholePath(name) ==
    [dx |-> IF \/ StartsWith(name, "snap.u")
               \/ StartsWith(name, "wind_x")
               \/ StartsWith(name, "av.u") THEN 1 ELSE 0,
     dy |-> IF \/ StartsWith(name, "snap.v")
               \/ StartsWith(name, "wind_y")
               \/ StartsWith(name, "av.v") THEN 1 ELSE 0,
     layered |-> ~ \/ StartsWith(name, "snap.eta")
                   \/ StartsWith(name, "wind_x")
                   \/ StartsWith(name, "wind_y")
                   \/ StartsWith(name, "av.eta")]

\* the sequence of prefix tests of interpret_raw_file: [dx, dy, layered]
raw_file_convention(name) ==
    LET file_part == basename(name) IN
    [dx |-> IF \/ StartsWith(file_part, "snap.u")
               \/ StartsWith(file_part, "wind_x")
               \/ StartsWith(file_part, "av.u") THEN 1 ELSE 0,
     dy |-> IF \/ StartsWith(file_part, "snap.v")
               \/ StartsWith(file_part, "wind_y")
               \/ StartsWith(file_part, "av.v") THEN 1 ELSE 0,
     layered |-> ~ \/ StartsWith(file_part, "snap.eta")
                   \/ StartsWith(file_part, "wind_x")
                   \/ StartsWith(file_part, "wind_y")
                   \/ StartsWith(file_part, "av.eta")]

NoRequest == [data |-> PyStr(""), shape |-> ""]

NoArray == [err |-> "none", shape |-> <<>>]

\* interpret_raw_file(name, nx, ny, layers), run in directory d: the record of
\* the file is read flat, reshaped to (layers, ny+dy, nx+dx) or (ny+dy, nx+dx)
\* and transposed; reshape refuses a record of another size
interpret_raw_file(name, nx, ny, layers, rf, d) ==
    LET conv == raw_file_convention(name) IN
    IF {f \in rf : f.dir = d /\ f.name = name} = {}
    THEN [NoArray EXCEPT !.err = "IOError"]
    ELSE LET f == CHOOSE g \in rf : g.dir = d /\ g.name = name IN
         IF conv.layered
         THEN IF f.len # layers * (ny + conv.dy) * (nx + conv.dx)
              THEN [NoArray EXCEPT !.err = "ValueError"]
              ELSE [err |-> "none", shape |-> <<nx + conv.dx, ny + conv.dy, layers>>]
         ELSE IF f.len # (ny + conv.dy) * (nx + conv.dx)
              THEN [NoArray EXCEPT !.err = "ValueError"]
              ELSE [err |-> "none", shape |-> <<nx + conv.dx, ny + conv.dy>>]

\* interpret_requested_data(requested_data, shape, config) called in the
\* current directory
InterpretRequestedData ==
    /\ pc = "interpret_requested_data"
    /\ resolved' = interpret_requested_data(requested.data, requested.shape,
                                            config, rawfiles, cwd)
    /\ pc' = "resolved"
    /\ UNCHANGED <<inputs, output_files, mf_grid, ds, arr, requested, config, err,
                   cwd, dirstack, dirs, kept, files, launched, steps_done>>

FamilyPrefixes ==
    <<"snap.eta", "snap.h", "snap.u", "snap.v", "wind_x", "wind_y",
      "av.eta", "av.h", "av.u", "av.v">>

\* the variable family of an output file: the prefix of the naming convention
\* its base name starts with, "" when it starts with none
VariableFamily(name) ==
    LET hits == {i \in DOMAIN FamilyPrefixes : StartsWith(basename(name), FamilyPrefixes[i])}
    IN  IF hits = {} THEN ""
        ELSE FamilyPrefixes[CHOOSE i \in hits : \A j \in hits : i <= j]

NoDataset == [err |-> "none", iter |-> 0, xdim |-> "", xlen |-> 0, ydim |-> "", ylen |-> 0]

\* a variant of the loader that stacks whatever files it is given
open_mfdataarray_Merging(fs, g) ==
    LET conv == raw_file_convention(fs[1]) IN
    [err  |-> "none",
     iter |-> Len(fs),
     xdim |-> IF conv.dx = 1 THEN "xp1" ELSE "x",
     xlen |-> IF conv.dx = 1 THEN g.xp1 ELSE g.x,
     ydim |-> IF conv.dy = 1 THEN "yp1" ELSE "y",
     ylen |-> IF conv.dy = 1 THEN g.yp1 ELSE g.y]

\* open_mfdataarray(files, grid): files of more than one family are refused;
\* otherwise one entry of the iteration dimension per file, over the axes of
\* the family's staggering
open_mfdataarray(fs, g) ==
    IF Cardinality({VariableFamily(fs[i]) : i \in DOMAIN fs}) > 1
    THEN [NoDataset EXCEPT !.err = "invalid input"]
    ELSE LET conv == raw_file_convention(fs[1]) IN
         [err  |-> "none",
          iter |-> Len(fs),
          xdim |-> IF conv.dx = 1 THEN "xp1" ELSE "x",
          xlen |-> IF conv.dx = 1 THEN g.xp1 ELSE g.x,
          ydim |-> IF conv.dy = 1 THEN "yp1" ELSE "y",
          ylen |-> IF conv.dy = 1 THEN g.yp1 ELSE g.y]

OpenMfDataArray ==
    /\ pc = "open_mfdataarray"
    /\ ds' = open_mfdataarray(output_files, mf_grid)
    /\ pc' = "opened"
    /\ UNCHANGED <<inputs, output_files, mf_grid, arr, requested, resolved, config, err, cwd, dirstack,
                   dirs, kept, files, launched, steps_done>>

\* interpret_raw_file(name, grid.nx, grid.ny, grid.layers) on the one file given
InterpretRawFile ==
    /\ pc = "interpret_raw_file"
    /\ arr' = interpret_raw_file(output_files[1], mf_grid.nx, mf_grid.ny,
                                 mf_grid.layers, rawfiles, cwd)
    /\ pc' = "interpreted"
    /\ UNCHANGED <<inputs, output_files, mf_grid, ds, requested, resolved, config, err, cwd, dirstack,
                   dirs, kept, files, launched, steps_done>>

-----------------------------------------------------------------------------
(* The inputs explored *)

GyreConf ==
    << [name |-> "grid",
        options |-> << <<"nx", "10">>, <<"ny", "20">>, <<"layers", "1">>,
                       <<"dx", "100000">>, <<"dy", "100000">>,
                       <<"wetMaskFile", ":rectangular_pool:">> >>],
       [name |-> "model", options |-> << <<"RedGrav", "yes">> >>],
       [name |-> "initial_conditions",
        options |-> << <<"initHfile", ":tracer_point_variable_3d:400">> >>],
       [name |-> "external_forcing",
        options |-> << <<"DumpWind", "no">>, <<"RelativeWind", "Off">> >>],
       [name |-> "executable", options |-> << <<"exe", "aronnax_core">> >>] >>

\* a profiling run that reads its depth from a raw file; spongeHFile and an
\* unknown key are written under [grid]
ProfileConf ==
    GyreConf \o
    << [name |-> "executable", options |-> << <<"perf", "On">> >>],
       [name |-> "model", options |-> << <<"depthFile", "depth.bin">> >>],
       [name |-> "grid",
        options |-> << <<"spongeHFile", "sponge.bin">>, <<"bogus", "1">> >>] >>

ExtraSectionConf ==
    GyreConf \o << [name |-> "extra", options |-> << <<"foo", "bar">> >>] >>

\* a file that names the executable and holds a section of its own, no more
BareExtraConf ==
    << [name |-> "executable", options |-> << <<"exe", "aronnax_core">> >>],
       [name |-> "extra", options |-> << <<"foo", "bar">> >>] >>

MissingConf == <<>>

ConfFiles == {GyreConf, ProfileConf, ExtraSectionConf, BareExtraConf, MissingConf}

\* the mappings of at most n keys whose items are among `pairs`
RECURSIVE Mappings(_, _)
Mappings(pairs, n) ==
    IF n = 0 THEN {<<>>}
    ELSE LET smaller == Mappings(pairs, n - 1) IN
         smaller \cup
         {(p[1] :> p[2]) @@ m : <<m, p>> \in
             {mp \in smaller \X pairs : mp[2][1] \notin DOMAIN mp[1]}}

SimulateOptionPairs ==
    { <<"valgrind", PyBool(TRUE)>>, <<"perf", PyBool(TRUE)>>,
      <<"valgrind", PyStr("maybe")>>,
      <<"RedGrav", PyBool(FALSE)>>,
      <<"layers", PyInt(1)>>, <<"nx", PyInt(4)>>,
      <<"initHfile", PyList(<<PyFloat(400)>>)>>,
      <<"fUfile", PyFunc("f0")>>,
      <<"zonalWindFile", PyStr("wind.bin")>>,
      <<"bogus", PyInt(3)>> }

HomeDirs == {"/home", "/repo", "/home/input", "/home/run", "/home/run/input"}

\* files left by an earlier run in the directory given
OldFiles(d) ==
    { <<PathJoin(d, "output"), "snap.h.0000000001">>,
      <<PathJoin(d, "checkpoints"), "checkpoint.h.0000000001">>,
      <<PathJoin(d, "netcdf-output"), "snap.h.nc">> }

\* <<work_dir, the directories that exist, the files of an earlier run>>
Layouts ==
    { <<".", HomeDirs \cup {"/home/output", "/home/checkpoints", "/home/netcdf-output"},
        OldFiles("/home")>>,
      <<"run", HomeDirs \cup {"/home/run/netcdf-output"},
        {f \in OldFiles("/home/run") : f[1] = "/home/run/netcdf-output"}>>,
      <<"run", HomeDirs \ {"/home/run", "/home/run/input"}, {}>>,
      <<".", HomeDirs \ {"/home/input"}, {}>> }

RawFiles == { [dir |-> "/home/input", name |-> "depth.bin", len |-> 200] }

Idle ==
    /\ config = NoConfig
    /\ err = "none"
    /\ cwd0 = "/home"
    /\ cwd = cwd0
    /\ dirstack = <<>>
    /\ rawfiles = RawFiles
    /\ files = <<>>
    /\ launched = <<>>
    /\ steps_done = <<>>

NoLoader ==
    /\ output_files = <<>>
    /\ mf_grid = Grid(0, 0, 0)
    /\ ds = NoDataset
    /\ arr = NoArray
    /\ requested = NoRequest
    /\ resolved = Failed("")

Init ==
    /\ pc = "load_config"
    /\ conf_file \in ConfFiles
    /\ options \in Mappings(SimulateOptionPairs, MaxOptions)
    /\ \E layout \in Layouts :
          /\ work_dir = layout[1]
          /\ dirs = layout[2]
          /\ kept = layout[3]
    /\ before = [dirs |-> dirs, kept |-> kept]
    /\ environ \in {{}, {"ARONNAX_TEST_VALGRIND_ALL"}}
    /\ Idle
    /\ NoLoader

Next ==
    \/ LoadConfig
    \/ MergeConfig
    \/ EnterWorkDir
    \/ CompileCore
    \/ Make
    \/ LeaveRootPath
    \/ WriteMergedConf
    \/ MkdirOutput
    \/ MkdirCheckpoints
    \/ EnterInput
    \/ GenerateInputDataFiles
    \/ LeaveInput
    \/ GenerateParametersFile
    \/ RunExecutable
    \/ RmNetcdfOutput
    \/ MkdirNetcdfOutput
    \/ ConvertOutputToNetcdf
    \/ LeaveWorkDir
    \/ Unwind

Spec == Init /\ [][Next]_vars

\* The same program over a wide choice of options, in one directory layout
OptionPairs ==
    { <<"RedGrav", PyBool(TRUE)>>, <<"RedGrav", PyBool(FALSE)>>,
      <<"DumpWind", PyBool(TRUE)>>, <<"DumpWind", PyBool(FALSE)>>,
      <<"RelativeWind", PyBool(TRUE)>>, <<"RelativeWind", PyBool(FALSE)>>,
      <<"valgrind", PyBool(TRUE)>>, <<"valgrind", PyBool(FALSE)>>,
      <<"valgrind", PyStr("maybe")>>,
      <<"perf", PyBool(TRUE)>>, <<"perf", PyBool(FALSE)>>,
      <<"niter0", PyInt(0)>>, <<"layers", PyInt(1)>>, <<"debug_level", PyInt(1)>>,
      <<"nTimeSteps", PyInt(502)>>, <<"dt", PyFloat(600)>>,
      <<"exe", PyStr("aronnax_test")>>,
      <<"initHfile", PyList(<<PyFloat(400)>>)>>,
      <<"fUfile", PyFunc("f0")>>,
      <<"depthFile", PyStr("depth.bin")>>,
      <<"wind_mag_time_series_file", PyList(<<PyFunc("wind_time_series")>>)>>,
      <<"bogus", PyInt(3)>>, <<"redgrav", PyBool(TRUE)>> }

InitOptions ==
    /\ pc = "load_config"
    /\ conf_file \in ConfFiles
    /\ options \in Mappings(OptionPairs, MaxOptions)
    /\ work_dir = "."
    /\ dirs = HomeDirs
    /\ kept = {}
    /\ before = [dirs |-> dirs, kept |-> kept]
    /\ environ = {}
    /\ Idle
    /\ NoLoader

SpecOptions == InitOptions /\ [][Next]_vars

\* open_mfdataarray called on its own
OutputFileNames ==
    {"output/snap.h.0000000001", "output/snap.h.0000000101",
     "output/snap.u.0000000001", "output/snap.u.0000000101",
     "output/snap.v.0000000001", "output/snap.v.0000000101",
     "output/snap.eta.0000000001", "output/av.u.0000000101",
     "output/wind_y.0000000001"}

\* the lists of at most n distinct elements of S, the empty list left out
Lists(S, n) ==
    UNION {{q \in [1..k -> S] : \A i, j \in 1..k : i # j => q[i] # q[j]} : k \in 1..n}

Grids == {Grid(10, 20, 1), Grid(3, 2, 2)}

InitLoader ==
    /\ pc = "open_mfdataarray"
    /\ output_files \in Lists(OutputFileNames, MaxOutputFiles)
    /\ mf_grid \in Grids
    /\ ds = NoDataset
    /\ arr = NoArray
    /\ requested = NoRequest
    /\ resolved = Failed("")
    /\ conf_file = MissingConf
    /\ options = <<>>
    /\ work_dir = "."
    /\ dirs = HomeDirs
    /\ kept = {}
    /\ before = [dirs |-> dirs, kept |-> kept]
    /\ environ = {}
    /\ Idle

SpecLoader == InitLoader /\ [][OpenMfDataArray]_vars

\* interpret_raw_file called on its own: one file, in the current directory's
\* tree, whose record holds one of the sizes the conventions give, or no file
RawFileNames ==
    {"output/snap.h.0000000001", "output/snap.u.0000000001",
     "output/snap.v.0000000001", "output/snap.eta.0000000001",
     "output/wind_x.0000000001", "output/wind_y.0000000001",
     "output/av.h.0000000101", "output/av.u.0000000101",
     "output/av.v.0000000101", "output/av.eta.0000000101",
     "snap.u.0000000001", "av.eta.run/snap.v.0000000001",
     "wind_x/debug.0000000001", "snap.u/final.h.0001244161"}

RecordSizes(g) ==
    {g.nx * g.ny * g.layers, (g.nx + 1) * g.ny * g.layers,
     g.nx * (g.ny + 1) * g.layers, g.nx * g.ny, (g.nx + 1) * g.ny,
     g.nx * (g.ny + 1)}

InitRaw ==
    /\ pc = "interpret_raw_file"
    /\ \E name \in RawFileNames : output_files = <<name>>
    /\ mf_grid \in Grids
    /\ ds = NoDataset
    /\ arr = NoArray
    /\ requested = NoRequest
    /\ resolved = Failed("")
    /\ conf_file = MissingConf
    /\ options = <<>>
    /\ work_dir = "."
    /\ dirs = HomeDirs
    /\ kept = {}
    /\ before = [dirs |-> dirs, kept |-> kept]
    /\ environ = {}
    /\ config = NoConfig
    /\ err = "none"
    /\ cwd0 = "/home"
    /\ cwd = cwd0
    /\ dirstack = <<>>
    /\ rawfiles \in {{}} \cup
          {{[dir |-> "/home", name |-> output_files[1], len |-> n]} :
              n \in RecordSizes(mf_grid)}
    /\ files = <<>>
    /\ launched = <<>>
    /\ steps_done = <<>>

SpecRaw == InitRaw /\ [][InterpretRawFile]_vars

\* interpret_requested_data called on its own, in input/, for a configured grid
RequestedValues ==
    { PyFloat(400), PyInt(1), PyFunc("f0"),
      PyList(<<PyFloat(400)>>), PyList(<<PyFloat(400), PyFloat(500)>>),
      PyList(<<PyFunc("f0")>>), PyList(<<PyFunc("f0"), PyFunc("f1")>>),
      PyList(<<PyFunc("f0"), PyFloat(400)>>),
      PyStr(":f_plane_f_u:10"), PyStr(":f_plane_f_u:abc"),
      PyStr(":beta_plane_f_v:1,2"), PyStr(":rectangular_pool:"),
      PyStr(":tracer_point_variable_3d:400"), PyStr(":tracer_point_variable_2d:400"),
      PyStr(":u_point_variable_2d:1"),
      PyStr(":nosuch:1"), PyStr(":nosuch:abc"), PyStr(":final:h:1"),
      PyStr("depth.bin"), PyStr("missing.bin"), PyStr("depth:1:.bin") }

ShapeTags == {"2dT", "3dT", "2dU", "3dU", "2dV", "3dV", "time"}

\* the configuration of a grid of nx by ny points and `layers` layers
GridConf(nx, ny, layers) ==
    << [name |-> "grid",
        options |-> << <<"nx", Decimal(nx)>>, <<"ny", Decimal(ny)>>,
                       <<"layers", Decimal(layers)>>,
                       <<"dx", "100000">>, <<"dy", "100000">> >>] >>

InitResolve ==
    /\ pc = "interpret_requested_data"
    /\ \E data \in RequestedValues, shape \in ShapeTags :
          requested = [data |-> data, shape |-> shape]
    /\ resolved = Failed("")
    /\ conf_file \in {GridConf(10, 20, 1), GridConf(3, 2, 2)}
    /\ config = config_read(default_configuration, conf_file)
    /\ output_files = <<>>
    /\ mf_grid = Grid(0, 0, 0)
    /\ ds = NoDataset
    /\ arr = NoArray
    /\ options = <<>>
    /\ work_dir = "."
    /\ dirs = HomeDirs
    /\ kept = {}
    /\ before = [dirs |-> dirs, kept |-> kept]
    /\ environ = {}
    /\ err = "none"
    /\ cwd0 = "/home/input"
    /\ cwd = cwd0
    /\ dirstack = <<>>
    /\ rawfiles = RawFiles
    /\ files = <<>>
    /\ launched = <<>>
    /\ steps_done = <<>>

SpecResolve == InitResolve /\ [][InterpretRequestedData]_vars

-----------------------------------------------------------------------------
(* Properties *)

Done(step) == step \in SeqToSet(steps_done)

\* position of the first completion of `step` in steps_done
DoneAt(step) == CHOOSE i \in DOMAIN steps_done : steps_done[i] = step

Ended == pc \in {"returned", "raised"}
Failing == pc \in {"unwind", "raised"}

WorkDir == Resolve(cwd0, work_dir)
InputDir == PathJoin(WorkDir, "input")

\* the config as it was when merge_config was called
ConfigBeforeMerge == config_read(default_configuration, conf_file)

\* the check_call's that started the core executable
IsCoreLaunch(l) == StartsWith(l.cmd[Len(l.cmd)], root_path \o "/")
CoreLaunches == {i \in DOMAIN launched : IsCoreLaunch(launched[i])}

UnknownOptions == {k \in DOMAIN options : k \notin section_map_keys}

\* C1: a merge with an override key outside the key table fails with the
\* unrecognized-option error and leaves the configuration as it was before
\* the call, whatever else the mapping holds and in whatever order it is visited.
C1_RejectedMergeLeavesConfig ==
    (pc \notin {"load_config", "merge_config"} /\ UnknownOptions # {})
        => /\ err = "Unrecognized option"
           /\ config = ConfigBeforeMerge

\* C2: the core executable is started at most once, and only after the build,
\* aronnax-merged.conf, the input files and parameters.in have each succeeded,
\* in this order; when one of them fails the executable is never started and
\* simulate ends with the failure.
PreparationSteps ==
    <<"make", "write_merged_conf", "generate_input_data_files", "generate_parameters_file">>

Prepared ==
    /\ \A i \in DOMAIN PreparationSteps : Done(PreparationSteps[i])
    /\ \A i \in 1..(Len(PreparationSteps) - 1) :
          DoneAt(PreparationSteps[i]) < DoneAt(PreparationSteps[i + 1])
    /\ \E i \in DOMAIN launched :
          /\ launched[i].cmd[1] = "make"
          /\ launched[i].code = 0
          /\ \A j \in CoreLaunches : i < j
    /\ <<WorkDir, "aronnax-merged.conf">> \in DOMAIN files
    /\ <<WorkDir, "parameters.in">> \in DOMAIN files
    /\ \A b \in SeqToSet(files[<<WorkDir, "parameters.in">>]) : b.closed
    /\ \A k \in InputFileKeys(config) : <<InputDir, k \o ".bin">> \in DOMAIN files

C2_LaunchOnlyAfterPreparation ==
    /\ Cardinality(CoreLaunches) <= 1
    /\ CoreLaunches # {} => Prepared
    /\ (err # "none") <=> Failing
    /\ (Failing /\ ~Prepared) => CoreLaunches = {}
    /\ pc = "returned" => (Prepared /\ Cardinality(CoreLaunches) = 1)

C2_Witness ==
    /\ pc = "raised"
    /\ Cardinality(CoreLaunches) = 1
    /\ Cardinality(InputFileKeys(config)) >= 2

\* C3: when run_executable selects memory-check mode (valgrind true, or the
\* override variable set) and perf is true as well, it fails before any
\* subprocess is started.
RunAttempted == Done("generate_parameters_file") /\ pc # "run_executable"

MemoryCheckSelected ==
    \/ getboolean(config, "executable", "valgrind") = "true"
    \/ "ARONNAX_TEST_VALGRIND_ALL" \in environ

C3_MemoryCheckWithPerfFails ==
    (RunAttempted /\ MemoryCheckSelected /\ getboolean(config, "executable", "perf") = "true")
        => /\ Failing
           /\ CoreLaunches = {}
           /\ err \in {"AssertionError", "ValueError"}
           /\ getboolean(config, "executable", "valgrind") \in {"true", "false"}
                 => err = "AssertionError"

C3_Witness ==
    /\ RunAttempted
    /\ "ARONNAX_TEST_VALGRIND_ALL" \in environ
    /\ getboolean(config, "executable", "valgrind") = "false"
    /\ getboolean(config, "executable", "perf") = "true"
    /\ err = "AssertionError"

\* C4: a run that starts a subprocess starts exactly one, from the
\* memory-check template iff valgrind is true or the override variable is set,
\* otherwise from the profiling template iff perf is true, otherwise from the
\* normal template; its environment has GFORTRAN_STDERR_UNIT = 17 and a
\* non-zero exit is a failure of the call.
IsMemoryCheckCommand(cmd) ==
    /\ Len(cmd) = 6
    /\ SubSeq(cmd, 1, 5) = <<"mpirun", "-np", "1", "valgrind", "--error-exitcode=5">>

IsProfilingCommand(cmd) == cmd[1] = "perf" /\ cmd[2] = "stat"

IsNormalCommand(cmd) ==
    /\ Len(cmd) = 4
    /\ SubSeq(cmd, 1, 3) = <<"mpirun", "-np", "1">>

C4_OneLaunchFromTheSelectedTemplate ==
    /\ Cardinality(CoreLaunches) <= 1
    /\ (Done("run_executable") \/ (RunAttempted /\ err = "CalledProcessError"))
          => Cardinality(CoreLaunches) = 1
    /\ \A i \in CoreLaunches :
         LET l == launched[i]
             perf == getboolean(config, "executable", "perf") = "true"
         IN  /\ l.env["GFORTRAN_STDERR_UNIT"] = "17"
             /\ l.cmd[Len(l.cmd)] = root_path \o "/" \o config.opts[<<"executable", "exe">>].s
             /\ IsMemoryCheckCommand(l.cmd) <=> MemoryCheckSelected
             /\ IsProfilingCommand(l.cmd) <=> (~MemoryCheckSelected /\ perf)
             /\ IsNormalCommand(l.cmd) <=> (~MemoryCheckSelected /\ ~perf)
             /\ l.code # 0 => (Failing /\ err = "CalledProcessError")
             /\ l.code = 0 => Done("run_executable")

C4_Witness ==
    /\ pc = "raised"
    /\ "ARONNAX_TEST_VALGRIND_ALL" \in environ
    /\ getboolean(config, "executable", "valgrind") = "false"
    /\ \E i \in CoreLaunches :
          IsMemoryCheckCommand(launched[i].cmd) /\ launched[i].code = 5

\* C5: for every key of the table ending in File or file, parameters.in holds
\* '' when the key is not set in its home section and 'input/<key>.bin' when
\* it is, whatever its value.
FileValuedKeys == {k \in section_map_keys : EndsWith(k, "File") \/ EndsWith(k, "file")}

\* the lines of parameters.in (as written in work_dir) for key k in the block
\* of the section given
LinesFor(section, k) ==
    LET blocks == files[<<WorkDir, "parameters.in">>] IN
    UNION {{l \in blocks[i].lines : StartsWith(l, " " \o k \o " = ")} :
              i \in {j \in DOMAIN blocks : blocks[j].name = section}}

C5_FileOptionRendering ==
    Done("generate_parameters_file") =>
        \A k \in FileValuedKeys :
            LinesFor(section_map[k], k) =
                IF <<section_map[k], k>> \in DOMAIN config.opts
                THEN {" " \o k \o " = 'input/" \o k \o ".bin',"}
                ELSE {" " \o k \o " = '',"}

C5_Witness ==
    /\ Done("generate_parameters_file")
    /\ <<"grid", "fUfile">> \in DOMAIN config.opts
    /\ config.opts[<<"grid", "fUfile">>].t = "func"
    /\ <<"grid", "spongeHFile">> \in DOMAIN config.opts
    /\ LinesFor("sponge", "spongeHFile") = {" spongeHFile = '',"}

\* C6: merging the boolean true stores "yes" and false stores "no" in the home
\* section of RedGrav, DumpWind, RelativeWind, valgrind and perf; for the first
\* three parameters.in then holds .TRUE. for true and .FALSE. for false.
FlagHome ==
    [RedGrav |-> "model", DumpWind |-> "external_forcing",
     RelativeWind |-> "external_forcing", valgrind |-> "executable",
     perf |-> "executable"]

NamelistFlags == {"RedGrav", "DumpWind", "RelativeWind"}

C6_BooleanFlagsRoundTrip ==
    Done("merge_config") =>
        \A k \in DOMAIN FlagHome \cap DOMAIN options :
            options[k].t = "bool" =>
                LET given == options[k].n = 1 IN
                /\ <<FlagHome[k], k>> \in DOMAIN config.opts
                /\ config.opts[<<FlagHome[k], k>>] = PyStr(IF given THEN "yes" ELSE "no")
                /\ (k \in NamelistFlags /\ Done("generate_parameters_file")) =>
                      LinesFor(FlagHome[k], k) =
                          {" " \o k \o " = " \o (IF given THEN ".TRUE." ELSE ".FALSE.") \o ","}

C6_Witness ==
    /\ Done("generate_parameters_file")
    /\ "DumpWind" \in DOMAIN options
    /\ options["DumpWind"] = PyBool(TRUE)
    /\ "RedGrav" \in DOMAIN options
    /\ options["RedGrav"] = PyBool(FALSE)

\* C7: when simulate has returned or raised, the working directory is the one
\* of before the call; the scopes are nested (work_dir, inside it the
\* repository root during the build and input/ during input generation), each
\* left before the next statement of work_dir starts, so that parameters.in is
\* written in work_dir and not in input/.
InWorkDirOnly ==
    {"compile_core", "write_merged_conf", "mkdir_output", "mkdir_checkpoints",
     "enter_input", "generate_parameters_file", "run_executable",
     "rm_netcdf_output", "mkdir_netcdf_output", "convert_output_to_netcdf",
     "leave_work_dir"}

C7_WorkingDirectoryScopes ==
    /\ Ended => (cwd = cwd0 /\ dirstack = <<>>)
    /\ pc \in {"load_config", "merge_config", "enter_work_dir"}
          => (cwd = cwd0 /\ dirstack = <<>>)
    /\ pc \in InWorkDirOnly => (cwd = WorkDir /\ dirstack = <<cwd0>>)
    /\ pc \in {"make", "leave_root_path"}
          => (cwd = root_path /\ dirstack = <<cwd0, WorkDir>>)
    /\ pc \in {"generate_input_data_files", "leave_input"}
          => (cwd = InputDir /\ dirstack = <<cwd0, WorkDir>>)
    /\ \A f \in DOMAIN files : f[2] = "parameters.in" => f[1] = WorkDir
    /\ \A i \in CoreLaunches : launched[i].cwd = WorkDir

C7_Witness ==
    /\ pc = "raised"
    /\ work_dir = "run"
    /\ Done("enter_input")
    /\ ~Done("generate_input_data_files")
    /\ cwd = "/home"

\* C8: merge coerces only the booleans: a recognized key given a value that is
\* not True or False, the numbers 0 and 1 included, stores the value given.
C8_OnlyBooleansCoerced ==
    Done("merge_config") =>
        \A k \in DOMAIN options :
            options[k].t # "bool" =>
                /\ config.opts[<<section_map[k], k>>] = options[k]
                /\ TextOf(config.opts[<<section_map[k], k>>]) = TextOf(options[k])

\* C9: input-file generation writes exactly the files <key>.bin of the
\* file-valued keys set in their home section, one record each, none for a key
\* that is absent, and an absent key raises nothing.
BinFilesIn(d) == {f[2] : f \in {g \in DOMAIN files : g[1] = d /\ EndsWith(g[2], ".bin")}}

PresentFileKeys ==
    {k \in FileValuedKeys : <<section_map[k], k>> \in DOMAIN config.opts}

AllStartWith(prefixes) ==
    \E p \in prefixes :
        \A i \in DOMAIN output_files : StartsWith(basename(output_files[i]), p)

Axes(xdim, xlen, ydim, ylen) ==
    /\ ds.err = "none"
    /\ ds.iter = Len(output_files)
    /\ ds.xdim = xdim /\ ds.xlen = xlen
    /\ ds.ydim = ydim /\ ds.ylen = ylen

C10_OneFamilyDataset ==
    pc = "opened" =>
        /\ AllStartWith({"snap.u", "av.u"})
              => Axes("xp1", mf_grid.nx + 1, "y", mf_grid.ny)
        /\ AllStartWith({"snap.v", "av.v"})
              => Axes("x", mf_grid.nx, "yp1", mf_grid.ny + 1)
        /\ AllStartWith({"snap.h", "av.h", "snap.eta", "av.eta"})
              => Axes("x", mf_grid.nx, "y", mf_grid.ny)

C10_Witness ==
    /\ pc = "opened"
    /\ Len(output_files) = 2
    /\ AllStartWith({"snap.v"})
    /\ ds.iter = 2
    /\ ds.ydim = "yp1"
    /\ ds.ylen = 21

\* C11: open_mfdataarray on files of more than one variable family (snap.h
\* together with snap.u, for example) fails and returns no dataset, neither a
\* partial nor a merged one.
OutputVariables == {"h", "u", "v", "eta"}

\* the file holds the variable given, as a snapshot or as an average; the dot
\* keeps h, u, v apart from longer names
HoldsVariable(name, variable) ==
    \/ StartsWith(basename(name), "snap." \o variable \o ".")
    \/ StartsWith(basename(name), "av." \o variable \o ".")

SpansSeveralVariables ==
    \E i, j \in DOMAIN output_files :
        \E a, b \in OutputVariables :
            /\ a # b
            /\ HoldsVariable(output_files[i], a)
            /\ HoldsVariable(output_files[j], b)

C11_MixedFamiliesRefused ==
    (pc = "opened" /\ SpansSeveralVariables) =>
        /\ ds.err # "none"
        /\ ds.iter = 0
        /\ ds.xdim = "" /\ ds.ydim = ""
        /\ ds.xlen = 0 /\ ds.ylen = 0

C11_Witness ==
    /\ pc = "opened"
    /\ Len(output_files) = 3
    /\ HoldsVariable(output_files[1], "h")
    /\ HoldsVariable(output_files[2], "h")
    /\ HoldsVariable(output_files[3], "u")
    /\ ds.err = "invalid input"

\* C12: once the configuration has been built (defaults, the parsed file, the
\* merged overrides), every option it holds is a key of the fixed table stored
\* in its home section, and a key outside the table, from the file or from an
\* override, is rejected with an unrecognized-option error.
ParsedKeys ==
    UNION {{conf_file[i].options[j][1] : j \in DOMAIN conf_file[i].options} :
              i \in DOMAIN conf_file}

C12_OnlyTableKeysInHomeSection ==
    pc \notin {"load_config", "merge_config"} =>
        /\ \A o \in DOMAIN config.opts :
              /\ o[2] \in section_map_keys
              /\ section_map[o[2]] = o[1]
        /\ (\E k \in ParsedKeys \cup DOMAIN options : k \notin section_map_keys)
              => err = "Unrecognized option"

\* C13: interpret_raw_file takes the shape from the base name of the file
\* alone: snap.h/av.h (nx, ny, layers); snap.u/av.u (nx+1, ny, layers);
\* snap.v/av.v (nx, ny+1, layers); snap.eta/av.eta (nx, ny); wind_x (nx+1, ny);
\* wind_y (nx, ny+1); any other base name (nx, ny, layers).
BaseNameOf(path) ==
    LET cuts == {i \in 1..Len(path) : SubSeq(path, i, i) = "/"} IN
    IF cuts = {} THEN path
    ELSE SubSeq(path, (CHOOSE i \in cuts : \A j \in cuts : j <= i) + 1, Len(path))

BaseStartsWith(prefixes) ==
    \E q \in prefixes : StartsWith(BaseNameOf(output_files[1]), q)

ConventionShape ==
    LET nx == mf_grid.nx
        ny == mf_grid.ny
        layers == mf_grid.layers
    IN  IF BaseStartsWith({"snap.u", "av.u"}) THEN <<nx + 1, ny, layers>>
        ELSE IF BaseStartsWith({"snap.v", "av.v"}) THEN <<nx, ny + 1, layers>>
        ELSE IF BaseStartsWith({"snap.eta", "av.eta"}) THEN <<nx, ny>>
        ELSE IF BaseStartsWith({"wind_x"}) THEN <<nx + 1, ny>>
        ELSE IF BaseStartsWith({"wind_y"}) THEN <<nx, ny + 1>>
        ELSE <<nx, ny, layers>>

RECURSIVE Product(_)
Product(shape) == IF shape = <<>> THEN 1 ELSE Head(shape) * Product(Tail(shape))

C13_ShapeFromBaseName ==
    pc = "interpreted" =>
        /\ arr.err = "none" => arr.shape = ConventionShape
        /\ arr.err = "none" <=>
              \E f \in rawfiles : f.len = Product(ConventionShape)

C13_Witness ==
    /\ pc = "interpreted"
    /\ output_files = <<"av.eta.run/snap.v.0000000001">>
    /\ mf_grid.layers = 2
    /\ arr.err = "none"
    /\ arr.shape = <<3, 3, 2>>

\* C14: the statements of simulate leave what output/ and checkpoints/ held
\* before the call in place (the directories are only created when missing);
\* netcdf-output/ is removed and recreated only after the core has exited with
\* status zero, and is as it was before the call when an earlier step fails.
OutputDir == PathJoin(WorkDir, "output")
CheckpointsDir == PathJoin(WorkDir, "checkpoints")
NetcdfOutputDir == PathJoin(WorkDir, "netcdf-output")

\* what a directory is: whether it exists, and the earlier files it holds
StateOf(d, tree) == [exists |-> d \in tree.dirs,
                     holds  |-> {f \in tree.kept : f[1] = d}]

Now == [dirs |-> dirs, kept |-> kept]

CoreSucceeded == \E i \in CoreLaunches : launched[i].code = 0

C14_OutputKeptNetcdfRecreatedAfterRun ==
    /\ \A d \in {OutputDir, CheckpointsDir} :
          /\ StateOf(d, Now).holds = StateOf(d, before).holds
          /\ StateOf(d, before).exists => StateOf(d, Now).exists
    /\ Done("mkdir_output") => StateOf(OutputDir, Now).exists
    /\ Done("mkdir_checkpoints") => StateOf(CheckpointsDir, Now).exists
    /\ StateOf(NetcdfOutputDir, Now) # StateOf(NetcdfOutputDir, before)
          => (CoreSucceeded /\ Done("run_executable"))
    /\ Done("rm_netcdf_output") => StateOf(NetcdfOutputDir, Now).holds = {}
    /\ Done("mkdir_netcdf_output")
          => StateOf(NetcdfOutputDir, Now) = [exists |-> TRUE, holds |-> {}]

C14_Witness ==
    /\ pc = "returned"
    /\ StateOf(OutputDir, before).holds # {}
    /\ StateOf(CheckpointsDir, before).holds # {}
    /\ StateOf(NetcdfOutputDir, before).holds # {}
    /\ StateOf(OutputDir, Now).holds # {}
    /\ StateOf(NetcdfOutputDir, Now) = [exists |-> TRUE, holds |-> {}]

\* C15: interpret_requested_data with a value that is not text (a constant or a
\* function for the 2d tags, a per-layer list of these for the 3d tags) returns
\* an array of the tag's shape for the configured grid: 2dT (ny, nx), 3dT
\* (layers, ny, nx), 2dU (ny, nx+1), 3dU (layers, ny, nx+1), 2dV (ny+1, nx),
\* 3dV (layers, ny+1, nx); any other tag fails as not implemented.
ConfiguredGrid ==
    Grid(getnumber(config, "grid", "nx").n, getnumber(config, "grid", "ny").n,
         getnumber(config, "grid", "layers").n)

IsField(v) == v.t \in {"int", "float", "func"}

\* the value has the form the tag asks for
FitsTag(v, tag) ==
    IF tag \in {"2dT", "2dU", "2dV"} THEN IsField(v)
    ELSE /\ v.t = "list"
         /\ Len(v.items) = ConfiguredGrid.layers
         /\ \A i \in DOMAIN v.items : IsField(v.items[i])

TagShape(tag) ==
    LET g == ConfiguredGrid IN
    CASE tag = "2dT" -> <<g.ny, g.nx>>
      [] tag = "3dT" -> <<g.layers, g.ny, g.nx>>
      [] tag = "2dU" -> <<g.ny, g.nx + 1>>
      [] tag = "3dU" -> <<g.layers, g.ny, g.nx + 1>>
      [] tag = "2dV" -> <<g.ny + 1, g.nx>>
      [] tag = "3dV" -> <<g.layers, g.ny + 1, g.nx>>

C15_NonTextResolvesToTagShape ==
    (pc = "resolved" /\ ~IsText(requested.data)) =>
        IF requested.shape \in {"2dT", "3dT", "2dU", "3dU", "2dV", "3dV"}
        THEN FitsTag(requested.data, requested.shape) =>
                /\ resolved.err = "none"
                /\ resolved.shape = TagShape(requested.shape)
        ELSE resolved.err = "Exception: TODO implement custom generation"

\* C16: interpret_requested_data with a text value takes one of three outcomes:
\* the text matches :name:args with a registered name, and the result is that
\* generator applied to the grid and the parsed numeric arguments, no file
\* read; it matches with a name that is not registered, and the call fails with
\* a lookup error, no file read; it does not match, and the text is the path of
\* a raw file whose record is returned flat.
RequestedText == requested.data.s

Colons == {i \in 1..Len(RequestedText) : SubSeq(RequestedText, i, i) = ":"}

MatchesSpecifier == 1 \in Colons /\ Cardinality(Colons) >= 2

LastColonAt == CHOOSE i \in Colons : \A j \in Colons : j <= i

SpecifierName == SubSeq(RequestedText, 2, LastColonAt - 1)

SpecifierArgs ==
    LET arg_str == SubSeq(RequestedText, LastColonAt + 1, Len(RequestedText))
    IN  IF arg_str = "" THEN <<>> ELSE SplitCommas(arg_str)

ArgsAreNumbers == \A i \in DOMAIN SpecifierArgs : IsNumeral(SpecifierArgs[i])

ParsedArgs == [i \in DOMAIN SpecifierArgs |-> PyFloat(NumeralValue(SpecifierArgs[i]))]

RegisteredGenerators ==
    {"tracer_point_variable_2d", "tracer_point_variable_3d",
     "u_point_variable_2d", "u_point_variable_3d",
     "v_point_variable_2d", "v_point_variable_3d",
     "beta_plane_f_u", "beta_plane_f_v", "f_plane_f_u", "f_plane_f_v",
     "rectangular_pool"}

GeneratorApplied ==
    /\ resolved = CallGenerator(SpecifierName, ConfiguredGrid, ParsedArgs)
    /\ resolved.src # "file"

LookupFailed == resolved.err = "KeyError" /\ resolved.src # "file"

RawFileRead ==
    LET here == {f \in rawfiles : f.dir = cwd /\ f.name = RequestedText} IN
    IF here = {} THEN resolved.err = "IOError"
    ELSE /\ resolved.err = "none"
         /\ resolved.src = "file"
         /\ resolved.what = RequestedText
         /\ \E f \in here : resolved.shape = <<f.len>>

\* C16 with the three outcomes for every matching text, whatever its arguments
C16_ThreeOutcomesOfText ==
    (pc = "resolved" /\ IsText(requested.data)) =>
        IF MatchesSpecifier /\ SpecifierName \in RegisteredGenerators
        THEN ArgsAreNumbers /\ GeneratorApplied
        ELSE IF MatchesSpecifier THEN LookupFailed
        ELSE RawFileRead

\* C16 as the code has it: a matching text whose arguments are not all numbers
\* fails with a value error before the name is looked up, no file read; with
\* numeric arguments the three outcomes are the ones stated.
C16_OutcomesOfText ==
    (pc = "resolved" /\ IsText(requested.data)) =>
        IF MatchesSpecifier /\ ~ArgsAreNumbers
        THEN resolved.err = "ValueError" /\ resolved.src # "file"
        ELSE IF MatchesSpecifier /\ SpecifierName \in RegisteredGenerators
        THEN GeneratorApplied
        ELSE IF MatchesSpecifier THEN LookupFailed
        ELSE RawFileRead

C16_Witness ==
    /\ pc = "resolved"
    /\ requested.data = PyStr(":nosuch:abc")
    /\ resolved.err = "ValueError"

\* C17: when the configuration holds a section outside the fixed list of nine,
\* generate_parameters_file fails with the unexpected-section error and the
\* core executable is never launched in that call of simulate.
UnexpectedSections == {x \in SeqToSet(config.secs) : x \notin SeqToSet(sections)}

ParametersAttempted ==
    Done("leave_input") /\ pc # "generate_parameters_file"

C17_UnexpectedSectionFails ==
    /\ UnexpectedSections # {} => CoreLaunches = {}
    /\ (ParametersAttempted /\ UnexpectedSections # {}) =>
          /\ Failing
          /\ ~Done("generate_parameters_file")
          /\ err = "Detected unexpected section name"

\* C17 as the code has it: the sections are visited in the order the
\* configuration holds them, the nine fixed ones first, so the error is the
\* unexpected-section one only when RedGrav, DumpWind and RelativeWind render;
\* otherwise it is the error of the flag; in both cases generation fails and
\* the core executable is never launched.
FlagsRender ==
    \A k \in {"RedGrav", "DumpWind", "RelativeWind"} :
        getboolean(config, section_map[k], k) \in {"true", "false"}

C17_UnexpectedSectionStopsRun ==
    /\ UnexpectedSections # {} => CoreLaunches = {}
    /\ (ParametersAttempted /\ UnexpectedSections # {}) =>
          /\ Failing
          /\ ~Done("generate_parameters_file")
          /\ FlagsRender => err = "Detected unexpected section name"
          /\ ~FlagsRender => err \in {"NoOptionError", "ValueError", "AttributeError"}

C17_Witness ==
    /\ pc = "raised"
    /\ ParametersAttempted
    /\ "extra" \in UnexpectedSections
    /\ FlagsRender
    /\ err = "Detected unexpected section name"
    /\ <<WorkDir, "parameters.in">> \in DOMAIN files

\* C18: once input-file generation and parameter-file generation have both
\* succeeded in one call, every path input/<key>.bin that parameters.in gives
\* for a file-valued option names a file written by that call from the value
\* of the option, and every file-valued option without a written file is
\* rendered as ''.
PathGiven(k) == " " \o k \o " = 'input/" \o k \o ".bin',"

NoPathGiven(k) == " " \o k \o " = '',"

\* the file of the key was written in input/ from the value the key has
WrittenFromValue(k) ==
    /\ <<InputDir, k \o ".bin">> \in DOMAIN files
    /\ <<section_map[k], k>> \in DOMAIN config.opts
    /\ files[<<InputDir, k \o ".bin">>].records =
          << interpret_requested_data(config.opts[<<section_map[k], k>>],
                                      data_types[k], config, rawfiles, InputDir) >>
    /\ files[<<InputDir, k \o ".bin">>].records[1].err = "none"

BooleanSpellings == {"1", "yes", "true", "on", "0", "no", "false", "off"}

FlagIsSet(k) == <<FlagHome[k], k>> \in DOMAIN config.opts

FlagIsSpelled(k) ==
    /\ FlagIsSet(k)
    /\ config.opts[<<FlagHome[k], k>>].t = "str"
    /\ Lower(config.opts[<<FlagHome[k], k>>].s) \in BooleanSpellings

\* parameters.in ends in a block that was opened and not closed
PartiallyWritten ==
    /\ <<WorkDir, "parameters.in">> \in DOMAIN files
    /\ LET blocks == files[<<WorkDir, "parameters.in">>] IN
       /\ blocks # <<>>
       /\ Len(blocks) <= Len(config.secs)
       /\ ~blocks[Len(blocks)].closed
       /\ \A i \in 1..(Len(blocks) - 1) : blocks[i].closed

C19_FlagsNeededByParameters ==
    /\ Done("generate_parameters_file") => \A k \in NamelistFlags : FlagIsSpelled(k)
    /\ (ParametersAttempted /\ \E k \in NamelistFlags : ~FlagIsSpelled(k)) =>
          /\ Failing
          /\ ~Done("generate_parameters_file")
          /\ PartiallyWritten
          /\ CoreLaunches = {}
          /\ (\A k \in NamelistFlags : FlagIsSet(k) => FlagIsSpelled(k))
                => err = "NoOptionError"

C19_Witness ==
    /\ pc = "raised"
    /\ conf_file = MissingConf
    /\ DOMAIN options = {"exe"}
    /\ ParametersAttempted
    /\ err = "NoOptionError"
    /\ PartiallyWritten

====
